---------------------------- MODULE Spec2Model ----------------------------
(***************************************************************************)
(* A model of the TSC benchmark library (include/tsc_benchmark.h,          *)
(* include/tsc_clock.h, tsc_cpu.h, utils/affinity.h).                      *)
(*                                                                         *)
(* One TSCBenchmarking<CheckCpuMigration, BarrierType> object is modelled: *)
(* its constructor, Initialize (with the two MeasureMinLatency loops of    *)
(* MeasureOverhead), Run (warm-up loop, measurement loop, result) and      *)
(* MeasureTime.  Every loop iteration is one step whose clock readings     *)
(* (start, end and, with migration detection, the two core ids) are the    *)
(* inputs of the step.                                                     *)
(*                                                                         *)
(* TimePoint is std::uint64_t in the source.  The model keeps the modular  *)
(* arithmetic but scales the width down to TimePointBits bits so that the  *)
(* wrap-around cases are reachable.                                        *)
(***************************************************************************)
EXTENDS Integers, Sequences, FiniteSets

(***************************************************************************)
(* Bounds of the model.                                                    *)
(***************************************************************************)
\* width of TimePoint in the model (64 in the source)
TimePointBits == 2
\* largest Settings::cycles_number_ explored
MaxCycles == 2
\* largest Settings::cache_warmup_cycles_number_ explored
MaxWarmup == 1
\* largest cycles_number handed to MeasureOverhead (100 in the source)
MaxCalCycles == 2
\* start readings are drawn from 0..MaxStart, end readings from all of TimePoint
MaxStart == 1
\* largest stabilized_threshold handed to MeasureStabilizedMinLatency
MaxThreshold == 2
\* most samples one Run discards where the discards are counted
MaxDiscards == 2

(***************************************************************************)
(* Program constants.                                                      *)
(***************************************************************************)
\* bit positions of the CPUID feature masks (1u << n)
kTscFeatureBit == 4
kRdtscpFeatureBit == 27
kInvariantTscBit == 8
kDefaultCyclesNumber == 100
kDefaultStabilizedThreshold == (kDefaultCyclesNumber * 10) \div 100

(***************************************************************************)
(* TimePoint arithmetic: unsigned, modulo 2^TimePointBits.                 *)
(***************************************************************************)
Modulus == 2 ^ TimePointBits
TimePoint == 0 .. (Modulus - 1)
\* std::numeric_limits<TimePoint>::max()
TimePointMax == Modulus - 1

\* a mutant of Sub: saturating instead of wrapping subtraction
SubSaturating(a, b) == IF a >= b THEN a - b ELSE 0
\* unsigned a - b
Sub(a, b) == (a - b + Modulus) % Modulus

\* a mutant of Add: saturating instead of wrapping addition
AddSaturating(a, b) == IF a + b > Modulus - 1 THEN Modulus - 1 ELSE a + b
\* unsigned a + b
Add(a, b) == (a + b) % Modulus

\* a mutant of StdMin: keeps the larger value
StdMax(a, b) == IF a < b THEN b ELSE a
\* std::min
StdMin(a, b) == IF b < a THEN b ELSE a

(***************************************************************************)
(* enum class Barrier and the instruction sequences of TSCClock.           *)
(***************************************************************************)
Barrier == {"kOneCpuId", "kLFence", "kMFence", "kRdtscp", "kTwoCpuId"}

\* TSCClock<B>::StartTime() / StartTime(CpuId&): instructions in issue order
StartTimeSeq(b, withCpu) ==
    LET read == IF withCpu THEN "rdtscp" ELSE "rdtsc"
    IN  IF b = "kTwoCpuId" THEN <<"cpuid", read, "cpuid">>
                           ELSE <<"cpuid", read>>

\* a mutant of EndTimeSeq: the load fence placed after the read of kLFence
EndTimeSeqFenceLate(b, withCpu) ==
    LET read == IF withCpu THEN "rdtscp" ELSE "rdtsc"
    IN  CASE b = "kOneCpuId" -> <<"cpuid", read>>
          [] b = "kLFence"   -> <<read, "lfence", "cpuid">>
          [] b = "kMFence"   -> <<"cpuid", read, "mfence">>
          [] b = "kRdtscp"   -> <<"rdtscp", "cpuid">>
          [] b = "kTwoCpuId" -> <<"cpuid", read, "cpuid">>
\* TSCClock<B>::EndTime() / EndTime(CpuId&): instructions in issue order
EndTimeSeq(b, withCpu) ==
    LET read == IF withCpu THEN "rdtscp" ELSE "rdtsc"
    IN  CASE b = "kOneCpuId" -> <<"cpuid", read>>
          [] b = "kLFence"   -> <<"lfence", read, "cpuid">>
          [] b = "kMFence"   -> <<"cpuid", read, "mfence">>
          [] b = "kRdtscp"   -> <<"rdtscp", "cpuid">>
          [] b = "kTwoCpuId" -> <<"cpuid", read, "cpuid">>

\* the instructions a benchmarking object issues for one start/end pair:
\* Run and Measure use the core-id variants exactly when CheckCpuMigration
InstructionsUsed(mig, b) ==
    LET s == StartTimeSeq(b, mig)
        e == EndTimeSeq(b, mig)
    IN  {s[k] : k \in 1..Len(s)} \cup {e[k] : k \in 1..Len(e)}

(***************************************************************************)
(* details::CpuInfo: the EDX register of CPUID leaf 1 as the set of the    *)
(* bit positions that are set.                                             *)
(***************************************************************************)
EdxValues == SUBSET {kTscFeatureBit, kRdtscpFeatureBit, kInvariantTscBit}

IsFeatureEnabled(reg, bit) == bit \in reg
IsTscEnabled(reg) == IsFeatureEnabled(reg, kTscFeatureBit)
IsInvariantTscEnabled(reg) == IsFeatureEnabled(reg, kInvariantTscBit)
IsRdtscpEnabled(reg) == IsFeatureEnabled(reg, kRdtscpFeatureBit)

\* assert(expr): aborts the process when expr is false, unless the build
\* defines NDEBUG, in which case the expression is not even evaluated
AssertPasses(ndebug, expr) == ndebug \/ expr

\* the two assertions of the constructor
CtorAssertsPass(ndebug, b, reg) ==
    /\ AssertPasses(ndebug, IsTscEnabled(reg))
    /\ AssertPasses(ndebug, b # "kRdtscp" \/ IsRdtscpEnabled(reg))


(***************************************************************************)
(* The decisions of the loops, one operator per condition of the source.   *)
(***************************************************************************)
\* a mutant of MigrationDetected: the core ids are never compared
MigrationIgnored(mig, c0, c1) == FALSE
\* Run: if constexpr (CheckCpuMigration) ... if (cpu_number0 != cpu_number1) continue;
MigrationDetected(mig, c0, c1) == mig /\ c0 # c1

\* a mutant of Monotonic: only a zero difference is rejected
NonZeroDifference(s, e) == e # s
\* Run and MeasureMinLatency: LIKELY(end > start)
Monotonic(s, e) == e > s

\* a mutant of AboveOverhead: the comparison turned round
BelowOverhead(time, overhead) == time < overhead
\* a mutant of AboveOverhead: a duration equal to the floor is kept
AtOrAboveOverhead(time, overhead) == time >= overhead
\* Run: if (time > tsc_overhead_)
AboveOverhead(time, overhead) == time > overhead

\* a mutant of ResultTime: the divisor is off by one
ResultTimeOffByOne(sum, n) == sum \div (n + 1)
\* Run: summary_time / settings.cycles_number_
ResultTime(sum, n) == sum \div n

\* a mutant of WarmupAdvances: a warm-up iteration that changed core is retried
WarmupRetriesMigration(mig, c0, c1) == ~(mig /\ c0 # c1)
\* a mutant of MeasureLoopContinues: the loop gives up one sample early
MeasureLoopStopsEarly(count, n) == count + 1 < n
\* Run, measurement loop: the condition r < settings.cycles_number_
MeasureLoopContinues(count, n) == count < n

\* a mutant of RunResult: the overhead field is averaged like the time
RunResultAveragedOverhead(sum, n, overhead) ==
    [time_ |-> ResultTime(sum, n), overhead_ |-> overhead \div (n + 1)]
\* Run: Result{summary_time / settings.cycles_number_, tsc_overhead_}
RunResult(sum, n, overhead) ==
    [time_ |-> ResultTime(sum, n), overhead_ |-> overhead]

\* Run, warm-up loop: ++r is unconditional
WarmupAdvances(mig, c0, c1) == TRUE

\* a mutant of MeasureReturn: the core ids are not compared
MeasureAlwaysTrue(mig, c0, c1) == TRUE
\* Measure: return start_cpu_number == end_cpu_number; (true without
\* migration detection)
MeasureReturn(mig, c0, c1) == IF mig THEN c0 = c1 ELSE TRUE

\* a mutant of PinThread: a negative core number is handed to
\* sched_setaffinity like any other
PinThreadUnchecked(cpu, affinity_ok) == affinity_ok
\* details::PinThread(cpu); affinity_ok is the outcome of sched_setaffinity
PinThread(cpu, affinity_ok) == IF cpu < 0 THEN FALSE ELSE affinity_ok

\* what PinThread and Run write to std::cerr
PinDiagnostics(cpu, affinity_ok) ==
    (IF cpu < 0 THEN {"cpu_negative"}
     ELSE IF ~affinity_ok THEN {"affinity_failed"} ELSE {})
    \cup (IF ~PinThread(cpu, affinity_ok) THEN {"pin_failed"} ELSE {})

\* what PinThread writes to std::cout
PinInfo(cpu, affinity_ok) ==
    IF PinThread(cpu, affinity_ok) THEN {"pinned"} ELSE {}

\* a mutant of InitializeInfo: the scheduling calls are made without
\* looking at the effective user id
InitializeInfoUnprivileged(root, sched_ok, mlock_ok) ==
    (IF sched_ok THEN {"sched_rt"} ELSE {})
    \cup (IF mlock_ok THEN {"pages_locked"} ELSE {})
\* what Initialize writes to std::cout
InitializeInfo(root, sched_ok, mlock_ok) ==
    IF root
    THEN (IF sched_ok THEN {"sched_rt"} ELSE {})
         \cup (IF mlock_ok THEN {"pages_locked"} ELSE {})
    ELSE {}

\* what Initialize writes to std::cerr
InitializeDiagnostics(root, sched_ok, mlock_ok) ==
    IF root
    THEN (IF ~sched_ok THEN {"sched_failed"} ELSE {})
         \cup (IF ~mlock_ok THEN {"mlock_failed"} ELSE {})
    ELSE {"no_root"}

\* MeasureStabilizedMinLatency: the loop condition
StabilizedLoopContinues(count, n, streak, threshold) ==
    count < n /\ streak < threshold

\* MeasureStabilizedMinLatency: min_latency_cycles_number after a valid
\* sample: set to 0 by a new minimum, then incremented in every case
StabilizedStreak(latency, min, streak) ==
    (IF latency < min THEN 0 ELSE streak) + 1

\* MeasureOverhead: {min_tsc_overhead, min_clock_overhead - min_tsc_overhead}
MeasureOverheadPair(min_tsc, min_clock) ==
    [first |-> min_tsc, second |-> Sub(min_clock, min_tsc)]

(***************************************************************************)
(* Inputs.                                                                 *)
(***************************************************************************)
\* the core ids RDTSCP can report in the model
CpuIds == {0, 1}
\* the value of the core-id variables where the source declares none
NoCpu == -1
\* start readings
Starts == 0 .. MaxStart
\* Settings::cpu_
CpuChoices == {-1, 0}
\* the Settings explored (cycles_number_ >= 1 is Run's precondition)
SettingsValues ==
    [cycles_number_ : 1 .. MaxCycles,
     cpu_ : CpuChoices,
     cache_warmup_cycles_number_ : 0 .. MaxWarmup]
NoSettings == [cycles_number_ |-> 0, cpu_ |-> 0, cache_warmup_cycles_number_ |-> 0]
\* no Run recorded for comparison
NoRun == [time_ |-> 0, greatest |-> 0, wrapped |-> FALSE]
NoResult == [time_ |-> 0, overhead_ |-> 0]

(***************************************************************************)
(* State.                                                                  *)
(***************************************************************************)
VARIABLES
    CheckCpuMigration,  \* template parameter
    BarrierType,        \* template parameter
    NDEBUG,             \* whether the build defines NDEBUG
    edx,                \* CPUID leaf 1 EDX of the processor
    obj,                \* "unconstructed", "constructed" or "aborted"
    pc,                 \* position of the one thread
    cerr,               \* diagnostics written by the last step
    cout,               \* information messages written by the last step
    tsc_overhead_,      \* member
    clock_overhead_,    \* member
    settings,           \* Run's parameter
    r,                  \* Run's loop counter
    summary_time,       \* Run's accumulator
    result,             \* the Result Run returned
    raw_time,           \* the value MeasureTime returned
    start,              \* local of Run / MeasureMinLatency / MeasureTime
    end,                \* idem
    cpu_number0,        \* core id of the start reading
    cpu_number1,        \* core id of the end reading
    iter,               \* which loop took the last sample
    issued,             \* instructions and call of the last sample, in order
    cycles_number,      \* MeasureMinLatency's parameter
    i,                  \* MeasureMinLatency's loop counter
    min_latency,        \* MeasureMinLatency's local
    min_tsc_overhead,   \* MeasureOverhead's local
    stabilized_threshold,       \* MeasureStabilizedMinLatency's parameter
    min_latency_cycles_number,  \* MeasureStabilizedMinLatency's local
    acc_count,          \* history: samples Run counted
    acc_sum,            \* history: exact sum of their durations
    acc_min,            \* history: least of their durations (0: none yet)
    acc_max,            \* history: greatest of their durations
    warm_execs,         \* history: executions of the operation in warm-up
    op_execs,           \* history: executions of the operation in the Run
    discards,           \* history: measurement samples of the Run that were
                        \* migrated, not monotonic or not above the floor
    valid_count,        \* history: valid samples of the calibration loop
    least_valid,        \* history: least duration among them (0: none yet)
    fail_streak,        \* history: consecutive valid samples that did not
                        \* beat the minimum
    first_run           \* history: summary of the first of two Runs compared

envVars == <<CheckCpuMigration, BarrierType, NDEBUG, edx>>
calibVars == <<tsc_overhead_, clock_overhead_>>
runVars == <<settings, r, summary_time, result, acc_count, acc_sum, acc_min,
             acc_max, warm_execs, op_execs, discards>>
sampleVars == <<start, end, cpu_number0, cpu_number1, iter, issued>>
calVars == <<cycles_number, i, min_latency, min_tsc_overhead, stabilized_threshold,
             min_latency_cycles_number, valid_count, least_valid, fail_streak>>
vars == <<envVars, obj, pc, cerr, cout, calibVars, runVars, raw_time, sampleVars,
          calVars, first_run>>

\* the locals of Run before a call
RunBlank ==
    /\ settings = NoSettings /\ r = 0 /\ summary_time = 0 /\ result = NoResult
    /\ acc_count = 0 /\ acc_sum = 0 /\ acc_min = 0 /\ acc_max = 0
    /\ warm_execs = 0 /\ op_execs = 0 /\ discards = 0
\* no sample taken
SampleBlank ==
    /\ start = 0 /\ end = 0 /\ cpu_number0 = NoCpu /\ cpu_number1 = NoCpu
    /\ iter = "none" /\ issued = <<>>
\* the locals of MeasureOverhead / MeasureMinLatency before a call
CalBlank ==
    /\ cycles_number = 0 /\ i = 0 /\ min_latency = 0 /\ min_tsc_overhead = 0
    /\ stabilized_threshold = 0 /\ min_latency_cycles_number = 0
    /\ valid_count = 0 /\ least_valid = 0 /\ fail_streak = 0

\* a call starts: the locals of the other operations are out of scope
ResetRun ==
    /\ settings' = NoSettings /\ r' = 0 /\ summary_time' = 0 /\ result' = NoResult
    /\ acc_count' = 0 /\ acc_sum' = 0 /\ acc_min' = 0 /\ acc_max' = 0
    /\ warm_execs' = 0 /\ op_execs' = 0 /\ discards' = 0
ResetSample ==
    /\ start' = 0 /\ end' = 0 /\ cpu_number0' = NoCpu /\ cpu_number1' = NoCpu
    /\ iter' = "none" /\ issued' = <<>>
ResetCal ==
    /\ cycles_number' = 0 /\ i' = 0 /\ min_latency' = 0 /\ min_tsc_overhead' = 0
    /\ stabilized_threshold' = 0 /\ min_latency_cycles_number' = 0
    /\ valid_count' = 0 /\ least_valid' = 0 /\ fail_streak' = 0

\* a call has returned and its caller has not resumed yet
Returned == {"init_done", "run_done", "mt_done"}

(***************************************************************************)
(* Construction.                                                           *)
(***************************************************************************)
\* members and locals of a freshly constructed (or not yet constructed) object
Fresh ==
    /\ pc = "ready" /\ tsc_overhead_ = 0 /\ clock_overhead_ = 0 /\ raw_time = 0
    /\ RunBlank /\ SampleBlank /\ CalBlank
    /\ first_run = NoRun

\* before the constructor runs, on any processor and in any build
InitCtor ==
    /\ CheckCpuMigration \in BOOLEAN /\ BarrierType \in Barrier
    /\ NDEBUG \in BOOLEAN /\ edx \in EdxValues
    /\ obj = "unconstructed" /\ cerr = {} /\ cout = {}
    /\ Fresh

\* TSCBenchmarking(): both assertions pass, the object exists
ConstructComplete ==
    /\ obj = "unconstructed"
    /\ CtorAssertsPass(NDEBUG, BarrierType, edx)
    /\ obj' = "constructed"
    /\ cerr' = IF ~IsInvariantTscEnabled(edx) THEN {"no_invariant_tsc"} ELSE {}
    /\ cout' = {}
    /\ UNCHANGED <<envVars, first_run, pc, calibVars, runVars, raw_time, sampleVars, calVars>>

\* TSCBenchmarking(): an assertion fails, the process aborts
ConstructAbort ==
    /\ obj = "unconstructed"
    /\ ~CtorAssertsPass(NDEBUG, BarrierType, edx)
    /\ obj' = "aborted"
    /\ cerr' = {"assertion_failed"}
    /\ cout' = {}
    /\ UNCHANGED <<envVars, first_run, pc, calibVars, runVars, raw_time, sampleVars, calVars>>

NextCtor == ConstructComplete \/ ConstructAbort

SpecCtor == InitCtor /\ [][NextCtor]_vars

(***************************************************************************)
(* The constructed object: Initialize, Run, MeasureTime.                   *)
(***************************************************************************)
\* a constructed object on a processor with every feature, before any call
Init ==
    /\ CheckCpuMigration \in BOOLEAN /\ BarrierType \in Barrier
    /\ NDEBUG = FALSE
    /\ edx = {kTscFeatureBit, kRdtscpFeatureBit, kInvariantTscBit}
    /\ obj = "constructed" /\ cerr = {} /\ cout = {}
    /\ Fresh

\* one start/end pair as the loops take it: with the core ids exactly when
\* CheckCpuMigration
TakeSample(s, e, c0, c1, kind) ==
    /\ start' = s /\ end' = e
    /\ cpu_number0' = c0 /\ cpu_number1' = c1
    /\ iter' = kind
    /\ LET withCpu == kind # "measure_time" /\ CheckCpuMigration
       IN  issued' = StartTimeSeq(BarrierType, withCpu) \o <<"code">>
                         \o EndTimeSeq(BarrierType, withCpu)

\* the core ids a sample can carry
SampleCpuIds == IF CheckCpuMigration THEN CpuIds ELSE {NoCpu}

\* Initialize(): the scheduling part, then MeasureOverhead starts its first
\* MeasureMinLatency (n is cycles_number)
InitializeBegin(root, sched_ok, mlock_ok, n) ==
    /\ obj = "constructed" /\ pc = "ready"
    /\ pc' = "cal_tsc"
    /\ cerr' = InitializeDiagnostics(root, sched_ok, mlock_ok)
    /\ cout' = InitializeInfo(root, sched_ok, mlock_ok)
    /\ cycles_number' = n /\ i' = 0 /\ min_latency' = TimePointMax
    /\ min_tsc_overhead' = 0 /\ valid_count' = 0 /\ least_valid' = 0
    /\ stabilized_threshold' = 0 /\ min_latency_cycles_number' = 0
    /\ fail_streak' = 0
    /\ ResetRun /\ ResetSample /\ raw_time' = 0
    /\ UNCHANGED <<envVars, first_run, obj, calibVars>>

\* MeasureMinLatency: one iteration of the loop
MeasureMinLatencyIter(s, e, c0, c1) ==
    /\ pc \in {"cal_tsc", "cal_clock"}
    /\ i < cycles_number
    /\ TakeSample(s, e, c0, c1, "cal")
    /\ IF MeasureReturn(CheckCpuMigration, c0, c1) /\ Monotonic(s, e)
       THEN /\ min_latency' = StdMin(min_latency, Sub(e, s))
            /\ i' = i + 1
       ELSE UNCHANGED <<min_latency, i>>
    /\ valid_count' = IF e > s /\ (CheckCpuMigration => c0 = c1)
                      THEN valid_count + 1 ELSE valid_count
    /\ least_valid' = IF e > s /\ (CheckCpuMigration => c0 = c1)
                               /\ (least_valid = 0 \/ e - s < least_valid)
                      THEN e - s ELSE least_valid
    /\ cerr' = {} /\ cout' = {}
    /\ UNCHANGED <<envVars, first_run, obj, pc, calibVars, runVars, raw_time,
                   cycles_number, min_tsc_overhead, stabilized_threshold,
                   min_latency_cycles_number, fail_streak>>

\* MeasureOverhead: the first MeasureMinLatency returns, the second starts
MeasureOverheadSecond ==
    /\ pc = "cal_tsc"
    /\ ~(i < cycles_number)
    /\ min_tsc_overhead' = min_latency
    /\ pc' = "cal_clock"
    /\ i' = 0 /\ min_latency' = TimePointMax
    /\ valid_count' = 0 /\ least_valid' = 0
    /\ cerr' = {} /\ cout' = {}
    /\ UNCHANGED <<envVars, first_run, obj, calibVars, runVars, raw_time, sampleVars,
                   cycles_number, stabilized_threshold,
                   min_latency_cycles_number, fail_streak>>

\* the second MeasureMinLatency returns, MeasureOverhead returns the pair
\* and Initialize stores it
InitializeReturn ==
    /\ pc = "cal_clock"
    /\ ~(i < cycles_number)
    /\ LET overheads == MeasureOverheadPair(min_tsc_overhead, min_latency)
       IN  /\ tsc_overhead_' = overheads.first
           /\ clock_overhead_' = overheads.second
    /\ pc' = "init_done"
    /\ cerr' = {} /\ cout' = {}
    /\ UNCHANGED <<envVars, first_run, obj, runVars, raw_time, sampleVars, calVars>>

\* Run(code, st): PinThread, then the warm-up loop starts (or, with no
\* warm-up cycles, the measurement loop)
RunBegin(st, affinity_ok) ==
    /\ obj = "constructed" /\ pc = "ready"
    /\ settings' = st
    /\ cerr' = PinDiagnostics(st.cpu_, affinity_ok)
    /\ cout' = PinInfo(st.cpu_, affinity_ok)
    /\ pc' = IF 0 < st.cache_warmup_cycles_number_ THEN "warmup" ELSE "measure"
    /\ r' = 0 /\ summary_time' = 0 /\ result' = NoResult
    /\ acc_count' = 0 /\ acc_sum' = 0 /\ acc_min' = 0 /\ acc_max' = 0
    /\ warm_execs' = 0 /\ op_execs' = 0 /\ discards' = 0
    /\ ResetSample /\ ResetCal /\ raw_time' = 0
    /\ UNCHANGED <<envVars, first_run, obj, calibVars>>

\* Run: one iteration of the warm-up loop
RunWarmupIter(s, e, c0, c1) ==
    /\ pc = "warmup"
    /\ r < settings.cache_warmup_cycles_number_
    /\ TakeSample(s, e, c0, c1, "warmup")
    /\ warm_execs' = warm_execs + 1
    /\ LET next_r == IF WarmupAdvances(CheckCpuMigration, c0, c1)
                     THEN r + 1 ELSE r
       IN  IF next_r < settings.cache_warmup_cycles_number_
           THEN r' = next_r /\ pc' = "warmup"
           ELSE r' = 0 /\ pc' = "measure"
    /\ cerr' = {} /\ cout' = {}
    /\ UNCHANGED <<envVars, first_run, obj, calibVars, settings, summary_time, result,
                   acc_count, acc_sum, acc_min, acc_max, raw_time, calVars>>

\* Run: one iteration of the measurement loop
RunMeasureIter(s, e, c0, c1) ==
    /\ pc = "measure"
    /\ MeasureLoopContinues(r, settings.cycles_number_)
    /\ TakeSample(s, e, c0, c1, "measure")
    /\ LET time == Sub(e, s)
           counted == /\ ~MigrationDetected(CheckCpuMigration, c0, c1)
                      /\ Monotonic(s, e)
                      /\ AboveOverhead(time, tsc_overhead_)
       IN  IF counted
           THEN /\ summary_time' = Add(summary_time, time)
                /\ r' = r + 1
                /\ acc_count' = acc_count + 1
                /\ acc_sum' = acc_sum + (e - s)
                /\ acc_min' = IF acc_count = 0 \/ e - s < acc_min
                              THEN e - s ELSE acc_min
                /\ acc_max' = IF acc_count = 0 \/ e - s > acc_max
                              THEN e - s ELSE acc_max
           ELSE UNCHANGED <<summary_time, r, acc_count, acc_sum, acc_min,
                            acc_max>>
    /\ cerr' = {} /\ cout' = {}
    /\ UNCHANGED <<envVars, first_run, obj, pc, calibVars, settings, result, warm_execs,
                   raw_time, calVars>>

\* the two counters of executions and discards are kept only where a
\* specification counts them
Uncounted == UNCHANGED <<op_execs, discards>>

\* Run: the measurement loop is over, the Result is returned
RunReturn ==
    /\ pc = "measure"
    /\ ~MeasureLoopContinues(r, settings.cycles_number_)
    /\ result' = RunResult(summary_time, settings.cycles_number_, tsc_overhead_)
    /\ pc' = "run_done"
    /\ cerr' = {} /\ cout' = {}
    /\ UNCHANGED <<envVars, first_run, obj, calibVars, settings, r, summary_time,
                   acc_count, acc_sum, acc_min, acc_max, warm_execs, op_execs,
                   discards, raw_time, sampleVars, calVars>>

\* MeasureTime(code): StartTime(), code(), EndTime(), return end - start
MeasureTime(s, e) ==
    /\ obj = "constructed" /\ pc = "ready"
    /\ TakeSample(s, e, NoCpu, NoCpu, "measure_time")
    /\ raw_time' = Sub(e, s)
    /\ pc' = "mt_done"
    /\ cerr' = {} /\ cout' = {}
    /\ ResetRun /\ ResetCal
    /\ UNCHANGED <<envVars, first_run, obj, calibVars>>

\* the caller has the returned value; the locals of the call are gone
CallerResumes ==
    /\ pc \in Returned
    /\ pc' = "ready"
    /\ cerr' = {} /\ cout' = {}
    /\ ResetRun /\ ResetSample /\ ResetCal /\ raw_time' = 0
    /\ UNCHANGED <<envVars, first_run, obj, calibVars>>

Next ==
    \/ \E root, sched_ok, mlock_ok \in BOOLEAN, n \in 1 .. MaxCalCycles :
          InitializeBegin(root, sched_ok, mlock_ok, n)
    \/ \E s \in Starts, e \in TimePoint, c0, c1 \in SampleCpuIds :
          MeasureMinLatencyIter(s, e, c0, c1)
    \/ MeasureOverheadSecond
    \/ InitializeReturn
    \/ \E st \in SettingsValues, affinity_ok \in BOOLEAN : RunBegin(st, affinity_ok)
    \/ \E s \in Starts, e \in TimePoint, c0, c1 \in SampleCpuIds :
          RunWarmupIter(s, e, c0, c1) /\ Uncounted
    \/ \E s \in Starts, e \in TimePoint, c0, c1 \in SampleCpuIds :
          RunMeasureIter(s, e, c0, c1) /\ Uncounted
    \/ RunReturn
    \/ \E s \in Starts, e \in TimePoint : MeasureTime(s, e)
    \/ CallerResumes

Spec == Init /\ [][Next]_vars

(***************************************************************************)
(* The life of an object up to the end of its Initialize, on a processor   *)
(* with the cycle counter and RDTSCP (the invariant-rate bit is free).     *)
(***************************************************************************)
InitLifecycle ==
    /\ CheckCpuMigration \in BOOLEAN /\ BarrierType \in Barrier
    /\ NDEBUG \in BOOLEAN
    /\ edx \in {reg \in EdxValues : IsTscEnabled(reg) /\ IsRdtscpEnabled(reg)}
    /\ obj = "unconstructed" /\ cerr = {} /\ cout = {}
    /\ Fresh

NextLifecycle ==
    \/ ConstructComplete
    \/ \E root, sched_ok, mlock_ok \in BOOLEAN, n \in 1 .. MaxCalCycles :
          InitializeBegin(root, sched_ok, mlock_ok, n)
    \/ \E s \in Starts, e \in TimePoint, c0, c1 \in SampleCpuIds :
          MeasureMinLatencyIter(s, e, c0, c1)
    \/ MeasureOverheadSecond
    \/ InitializeReturn

SpecLifecycle == InitLifecycle /\ [][NextLifecycle]_vars

\* a constructed object whose Initialize has stored a counter overhead (or
\* has not run: overhead 0)
InitCalibrated ==
    /\ CheckCpuMigration \in BOOLEAN /\ BarrierType \in Barrier
    /\ NDEBUG = FALSE
    /\ edx = {kTscFeatureBit, kRdtscpFeatureBit, kInvariantTscBit}
    /\ obj = "constructed" /\ cerr = {} /\ cout = {}
    /\ pc = "ready" /\ tsc_overhead_ \in TimePoint /\ clock_overhead_ = 0
    /\ raw_time = 0
    /\ RunBlank /\ SampleBlank /\ CalBlank
    /\ first_run = NoRun

(***************************************************************************)
(* The same object under the assumption that samples the loops can count   *)
(* keep occurring: a loop that is waiting for a valid sample eventually    *)
(* takes one, and a loop or call that can go on does go on.                *)
(***************************************************************************)
\* an iteration of Run's measurement loop whose sample is valid: same core,
\* end > start, duration above the counter overhead
ValidRunSample ==
    \E s \in Starts, e \in TimePoint, c0, c1 \in SampleCpuIds :
        /\ RunMeasureIter(s, e, c0, c1) /\ Uncounted
        /\ e > s /\ e - s > tsc_overhead_
        /\ CheckCpuMigration => c0 = c1
\* an iteration of MeasureMinLatency whose sample is valid: same core,
\* end > start
ValidCalSample ==
    \E s \in Starts, e \in TimePoint, c0, c1 \in SampleCpuIds :
        /\ MeasureMinLatencyIter(s, e, c0, c1)
        /\ e > s
        /\ CheckCpuMigration => c0 = c1
\* an iteration of the warm-up loop
WarmupSample ==
    \E s \in Starts, e \in TimePoint, c0, c1 \in SampleCpuIds :
        RunWarmupIter(s, e, c0, c1) /\ Uncounted

Fairness ==
    /\ WF_vars(ValidRunSample)
    /\ WF_vars(ValidCalSample)
    /\ WF_vars(WarmupSample)
    /\ WF_vars(RunReturn)
    /\ WF_vars(MeasureOverheadSecond)
    /\ WF_vars(InitializeReturn)

\* one call (Initialize, Run or MeasureTime) on an object that is not yet
\* calibrated or holds any counter overhead
NextFair ==
    \/ \E root, sched_ok, mlock_ok \in BOOLEAN, n \in 1 .. MaxCalCycles :
          InitializeBegin(root, sched_ok, mlock_ok, n)
    \/ \E s \in Starts, e \in TimePoint, c0, c1 \in SampleCpuIds :
          MeasureMinLatencyIter(s, e, c0, c1)
    \/ MeasureOverheadSecond
    \/ InitializeReturn
    \/ \E st \in SettingsValues, affinity_ok \in BOOLEAN : RunBegin(st, affinity_ok)
    \/ \E s \in Starts, e \in TimePoint, c0, c1 \in SampleCpuIds :
          RunWarmupIter(s, e, c0, c1) /\ Uncounted
    \/ \E s \in Starts, e \in TimePoint, c0, c1 \in SampleCpuIds :
          RunMeasureIter(s, e, c0, c1) /\ Uncounted
    \/ RunReturn
    \/ \E s \in Starts, e \in TimePoint : MeasureTime(s, e)

\* the default barrier policy: no loop reads the policy
InitFair == InitCalibrated /\ BarrierType = "kOneCpuId"

SpecFair == InitFair /\ [][NextFair]_vars /\ Fairness

(***************************************************************************)
(* One call of the private MeasureStabilizedMinLatency on a constructed    *)
(* object.                                                                 *)
(***************************************************************************)
\* MeasureStabilizedMinLatency(n, threshold, code) is entered
StabilizedBegin(n, threshold) ==
    /\ obj = "constructed" /\ pc = "ready"
    /\ pc' = "stab"
    /\ cycles_number' = n /\ stabilized_threshold' = threshold
    /\ i' = 0 /\ min_latency' = TimePointMax /\ min_latency_cycles_number' = 0
    /\ min_tsc_overhead' = 0
    /\ valid_count' = 0 /\ least_valid' = 0 /\ fail_streak' = 0
    /\ cerr' = {} /\ cout' = {}
    /\ ResetRun /\ ResetSample /\ raw_time' = 0
    /\ UNCHANGED <<envVars, first_run, obj, calibVars>>

\* MeasureStabilizedMinLatency: one iteration of the loop
StabilizedIter(s, e, c0, c1) ==
    /\ pc = "stab"
    /\ StabilizedLoopContinues(i, cycles_number, min_latency_cycles_number,
                               stabilized_threshold)
    /\ TakeSample(s, e, c0, c1, "stab")
    /\ IF MeasureReturn(CheckCpuMigration, c0, c1) /\ Monotonic(s, e)
       THEN /\ min_latency' = StdMin(min_latency, Sub(e, s))
            /\ min_latency_cycles_number' =
                   StabilizedStreak(Sub(e, s), min_latency,
                                    min_latency_cycles_number)
            /\ i' = i + 1
       ELSE UNCHANGED <<min_latency, min_latency_cycles_number, i>>
    /\ LET valid == e > s /\ (CheckCpuMigration => c0 = c1)
           beats == least_valid = 0 \/ e - s < least_valid
       IN  /\ valid_count' = IF valid THEN valid_count + 1 ELSE valid_count
           /\ least_valid' = IF valid /\ beats THEN e - s ELSE least_valid
           /\ fail_streak' = IF ~valid THEN fail_streak
                             ELSE IF beats THEN 0 ELSE fail_streak + 1
    /\ cerr' = {} /\ cout' = {}
    /\ UNCHANGED <<envVars, first_run, obj, pc, calibVars, runVars, raw_time,
                   cycles_number, stabilized_threshold, min_tsc_overhead>>

\* MeasureStabilizedMinLatency: the loop is over, min_latency is returned
StabilizedReturn ==
    /\ pc = "stab"
    /\ ~StabilizedLoopContinues(i, cycles_number, min_latency_cycles_number,
                                stabilized_threshold)
    /\ pc' = "stab_done"
    /\ cerr' = {} /\ cout' = {}
    /\ UNCHANGED <<envVars, first_run, obj, calibVars, runVars, raw_time, sampleVars,
                   calVars>>

NextStabilized ==
    \/ \E n \in 1 .. MaxCalCycles, threshold \in 0 .. MaxThreshold :
          StabilizedBegin(n, threshold)
    \/ \E s \in Starts, e \in TimePoint, c0, c1 \in SampleCpuIds :
          StabilizedIter(s, e, c0, c1)
    \/ StabilizedReturn

SpecStabilized == Init /\ [][NextStabilized]_vars

(***************************************************************************)
(* Two Runs of one object, one after the other, against the same counter   *)
(* overhead: the first measures operation A, the second operation B.       *)
(***************************************************************************)
\* the caller keeps the Result of the first Run, with what the comparison
\* needs to know of its samples, and goes on to the second
SecondOperation ==
    /\ pc = "run_done" /\ first_run = NoRun
    /\ first_run' = [time_ |-> result.time_, greatest |-> acc_max,
                     wrapped |-> acc_sum >= Modulus]
    /\ pc' = "ready"
    /\ cerr' = {} /\ cout' = {}
    /\ ResetRun /\ ResetSample /\ ResetCal /\ raw_time' = 0
    /\ UNCHANGED <<envVars, obj, calibVars>>

NextTwoRuns ==
    \/ \E st \in SettingsValues, affinity_ok \in BOOLEAN : RunBegin(st, affinity_ok)
    \/ \E s \in Starts, e \in TimePoint, c0, c1 \in SampleCpuIds :
          RunWarmupIter(s, e, c0, c1) /\ Uncounted
    \/ \E s \in Starts, e \in TimePoint, c0, c1 \in SampleCpuIds :
          RunMeasureIter(s, e, c0, c1) /\ Uncounted
    \/ RunReturn
    \/ SecondOperation

SpecTwoRuns == InitCalibrated /\ [][NextTwoRuns]_vars

(***************************************************************************)
(* One Run whose executions of the operation and whose discarded samples   *)
(* are counted (at most MaxDiscards discards are followed).                *)
(***************************************************************************)
\* the calls of the operation in an instruction trace
Executions(seq) == Len(SelectSeq(seq, LAMBDA x : x = "code"))

\* a warm-up iteration, counted
CountedWarmupIter(s, e, c0, c1) ==
    /\ RunWarmupIter(s, e, c0, c1)
    /\ op_execs' = op_execs + Executions(issued')
    /\ discards' = discards

\* a measurement iteration, counted; the sample is a discard when it is
\* migrated, not monotonic or not above the floor
CountedMeasureIter(s, e, c0, c1) ==
    /\ RunMeasureIter(s, e, c0, c1)
    /\ op_execs' = op_execs + Executions(issued')
    /\ IF \/ CheckCpuMigration /\ c0 # c1
          \/ e <= s
          \/ e - s <= tsc_overhead_
       THEN discards < MaxDiscards /\ discards' = discards + 1
       ELSE discards' = discards

NextCount ==
    \/ \E st \in SettingsValues, affinity_ok \in BOOLEAN : RunBegin(st, affinity_ok)
    \/ \E s \in Starts, e \in TimePoint, c0, c1 \in SampleCpuIds :
          CountedWarmupIter(s, e, c0, c1)
    \/ \E s \in Starts, e \in TimePoint, c0, c1 \in SampleCpuIds :
          CountedMeasureIter(s, e, c0, c1)
    \/ RunReturn

SpecCount == InitCalibrated /\ [][NextCount]_vars

(***************************************************************************)
(* Properties.                                                             *)
(***************************************************************************)
\* a step of Run's measurement loop is about to be taken / was just taken
InMeasureLoop == pc = "measure" /\ r < settings.cycles_number_
MeasuredSample == pc = "measure" /\ iter = "measure"

\* C1 as stated: Run returns only after exactly N samples have been
\* accepted and Result.time is the integer quotient of the exact sum of
\* their durations by N.
C1_TimeIsExactQuotient ==
    pc = "run_done" =>
        /\ acc_count = settings.cycles_number_
        /\ result.time_ = acc_sum \div settings.cycles_number_

\* C1 amended: Run returns only after exactly N samples have been accepted
\* and Result.time is the integer quotient by N of the sum of their
\* durations taken modulo 2^w (the width of the accumulator), with nothing
\* else added or subtracted; this is the exact quotient whenever the sum
\* stays below 2^w, in particular for N = 1, where it is the duration of
\* the single accepted sample.
C1_TimeIsWrappedQuotient ==
    pc = "run_done" =>
        /\ acc_count = settings.cycles_number_
        /\ r = settings.cycles_number_
        /\ result.time_ = (acc_sum % Modulus) \div settings.cycles_number_
        /\ acc_sum < Modulus =>
              result.time_ = acc_sum \div settings.cycles_number_
        /\ settings.cycles_number_ = 1 =>
              result.time_ = acc_sum /\ result.time_ = end - start

\* C1 witness: a Run of two cycles has returned and the exact sum of the
\* two accepted durations does not fit the accumulator.
C1_Witness ==
    /\ pc = "run_done" /\ settings.cycles_number_ = 2
    /\ acc_count = 2 /\ acc_sum >= Modulus

\* C2: with migration detection enabled, a measured sample whose start and
\* end core ids differ changes neither the running sum nor the count of
\* valid samples, whatever its timestamps; the loop goes on.
C2_MigratedSampleDiscarded ==
    [][(InMeasureLoop /\ CheckCpuMigration /\ cpu_number0' # cpu_number1')
         => /\ summary_time' = summary_time
            /\ r' = r
            /\ acc_count' = acc_count
            /\ pc' = "measure"]_vars

\* C2 witness: a measured sample straddled two cores although its
\* timestamps alone would have been accepted, and nothing was counted.
C2_Witness ==
    /\ MeasuredSample /\ CheckCpuMigration
    /\ cpu_number0 # cpu_number1
    /\ end > start /\ end - start > tsc_overhead_
    /\ acc_count = 0 /\ summary_time = 0

\* C3: a measured sample that is not discarded for migration is added to
\* the sum and counted if and only if its duration end - start is greater
\* than the calibrated floor; a duration at or below the floor changes
\* neither the sum nor the count.
C3_AcceptedIffAboveFloor ==
    [][(InMeasureLoop /\ (CheckCpuMigration => cpu_number0' = cpu_number1'))
         => IF end' - start' > tsc_overhead_
            THEN /\ summary_time' = (summary_time + (end' - start')) % Modulus
                 /\ r' = r + 1
            ELSE /\ summary_time' = summary_time
                 /\ r' = r]_vars

\* C3 witness: a measured sample lasted exactly as long as a non-zero
\* floor and was not counted.
C3_Witness ==
    /\ MeasuredSample
    /\ CheckCpuMigration => cpu_number0 = cpu_number1
    /\ tsc_overhead_ > 0 /\ end - start = tsc_overhead_
    /\ acc_count = 0 /\ summary_time = 0

\* C4: a measured sample whose end timestamp is not greater than its start
\* timestamp changes neither the running sum nor the count, for every
\* barrier policy and with migration detection on or off.
C4_NonMonotonicSampleDiscarded ==
    [][(InMeasureLoop /\ end' <= start')
         => /\ summary_time' = summary_time
            /\ r' = r
            /\ acc_count' = acc_count]_vars

\* C4 witness: a measured sample on one core read a smaller end than start,
\* so that the unsigned difference is above the floor, and was not counted.
C4_Witness ==
    /\ MeasuredSample
    /\ CheckCpuMigration => cpu_number0 = cpu_number1
    /\ end < start /\ Sub(end, start) > tsc_overhead_
    /\ acc_count = 0 /\ summary_time = 0

\* C5 as stated: the time Run reports is overhead-corrected: the calibrated
\* TSC overhead is subtracted from the measured average before it is
\* returned as Result.time.
C5_TimeIsOverheadCorrected ==
    pc = "run_done" =>
        result.time_ =
            Sub(summary_time \div settings.cycles_number_, tsc_overhead_)

\* C6: the warm-up phase executes the operation exactly warmupCycles times,
\* all before the first measured sample; no warm-up reading contributes to
\* the sum or the count; a warm-up iteration is never retried, whatever the
\* core ids read.
C6_WarmupExactAndDiscarded ==
    /\ pc = "warmup" =>
          /\ warm_execs = r
          /\ warm_execs < settings.cache_warmup_cycles_number_
          /\ iter # "measure"
          /\ summary_time = 0 /\ acc_count = 0
    /\ pc \in {"measure", "run_done"} =>
          warm_execs = settings.cache_warmup_cycles_number_
    /\ (pc = "measure" /\ iter # "measure") =>
          r = 0 /\ summary_time = 0 /\ acc_count = 0

\* C6 witness: the only warm-up iteration straddled two cores and the loop
\* went on to the measurement phase all the same.
C6_Witness ==
    /\ pc = "measure" /\ iter = "warmup"
    /\ CheckCpuMigration /\ cpu_number0 # cpu_number1
    /\ settings.cache_warmup_cycles_number_ = 1 /\ warm_execs = 1

\* C7: MeasureMinLatency counts exactly the valid samples (end > start and,
\* with migration detection, equal core ids) and returns after N of them
\* the least of their durations: an observed duration that no invalid
\* sample influenced.
C7_MinOverValidSamples ==
    pc \in {"cal_tsc", "cal_clock"} =>
        /\ i = valid_count
        /\ i <= cycles_number
        /\ min_latency = IF valid_count = 0 THEN TimePointMax ELSE least_valid
        /\ valid_count > 0 => least_valid > 0
        /\ pc = "cal_clock" => min_tsc_overhead > 0

\* C7 witness: the loop has its N = 2 valid samples and the minimum is the
\* earlier one, not the last.
C7_Witness ==
    /\ pc = "cal_tsc" /\ cycles_number = 2 /\ i = 2
    /\ end > start /\ min_latency < end - start

\* C8: Initialize stores the first floor as the counter overhead and the
\* second floor minus the first, computed modulo 2^w, as the clock overhead;
\* a second floor below the first raises no error.
C8_OverheadPairStored ==
    pc = "init_done" =>
        /\ tsc_overhead_ = min_tsc_overhead
        /\ min_latency = least_valid
        /\ clock_overhead_ = IF min_latency >= min_tsc_overhead
                             THEN min_latency - min_tsc_overhead
                             ELSE min_latency - min_tsc_overhead + Modulus

\* C8 witness: Initialize has completed although the second floor is below
\* the first; the stored clock overhead is the wrapped difference.
C8_Witness ==
    /\ pc = "init_done"
    /\ min_latency < min_tsc_overhead
    /\ clock_overhead_ = min_latency - min_tsc_overhead + Modulus

\* C9 as stated: construction never completes when the processor lacks the
\* cycle counter, nor when the kRdtscp policy is selected and the processor
\* lacks the read-and-identify instruction.
C9_ConstructionRefused ==
    obj = "constructed" =>
        /\ IsTscEnabled(edx)
        /\ BarrierType = "kRdtscp" => IsRdtscpEnabled(edx)

\* C10 as stated: for every barrier policy, an object with migration
\* detection enabled (all of whose reads use the read-and-identify
\* instruction) cannot be constructed on a processor without it.
C10_MigrationDetectionNeedsRdtscp ==
    (obj = "constructed" /\ CheckCpuMigration
       /\ "rdtscp" \in InstructionsUsed(CheckCpuMigration, BarrierType))
        => IsRdtscpEnabled(edx)

\* the step that is a call of Run / of MeasureTime
RunBeginStep == pc = "ready" /\ pc' \in {"warmup", "measure"}
MeasureTimeStep == pc = "ready" /\ pc' = "mt_done"

\* C11: whatever PinThread returns (a negative core number included, for
\* which sched_setaffinity is not even called), Run starts the same warm-up
\* and measurement: the phase entered and the fresh locals depend on the
\* warm-up count only, the object stays usable, and the failure shows as
\* warnings only.  A Run that has returned has counted its N samples and
\* made its warm-up executions whatever the core number was.
C11_PinFailureOnlyWarns ==
    [][ /\ RunBeginStep =>
            /\ obj' = "constructed"
            /\ pc' = IF settings'.cache_warmup_cycles_number_ > 0
                     THEN "warmup" ELSE "measure"
            /\ r' = 0 /\ summary_time' = 0 /\ result' = NoResult
            /\ UNCHANGED calibVars
            /\ settings'.cpu_ < 0 =>
                   /\ cerr' = {"cpu_negative", "pin_failed"}
                   /\ cout' = {}
            /\ "pin_failed" \in cerr' <=> "pinned" \notin cout'
            /\ cerr' \subseteq {"cpu_negative", "affinity_failed", "pin_failed"}
        /\ pc' = "run_done" =>
            /\ result'.overhead_ = tsc_overhead_
            /\ acc_count' = settings'.cycles_number_
            /\ warm_execs' = settings'.cache_warmup_cycles_number_
      ]_vars

\* C11 witness: a Run whose core number was negative has made its warm-up
\* execution, counted its N = 2 samples and returned a Result.
C11_Witness ==
    /\ pc = "run_done" /\ settings.cpu_ < 0
    /\ settings.cycles_number_ = 2 /\ acc_count = 2
    /\ settings.cache_warmup_cycles_number_ = 1 /\ warm_execs = 1
    /\ result # NoResult

\* C13: MeasureTime is one start reading, one execution of the operation
\* and one end reading, all without core ids; it returns end - start
\* modulo 2^w whatever the readings are (no filter against the overhead, no
\* monotonicity test), counts nothing, and leaves the overheads untouched.
C13_MeasureTimeIsRawDifference ==
    [][ MeasureTimeStep =>
            /\ raw_time' = IF end' >= start' THEN end' - start'
                           ELSE end' - start' + Modulus
            /\ iter' = "measure_time"
            /\ Len(SelectSeq(issued', LAMBDA x : x = "code")) = 1
            /\ Len(SelectSeq(issued', LAMBDA x : x \in {"rdtsc", "rdtscp"})) = 2
            /\ cpu_number0' = NoCpu /\ cpu_number1' = NoCpu
            /\ warm_execs' = 0 /\ acc_count' = 0 /\ result' = NoResult
            /\ UNCHANGED calibVars
      ]_vars

\* C13 witness: MeasureTime has returned the wrapped difference of an end
\* reading below the start reading, on an object whose counter overhead is
\* above that value's plain duration.
C13_Witness ==
    /\ pc = "mt_done" /\ end < start
    /\ raw_time = end - start + Modulus
    /\ tsc_overhead_ > 1

\* the step that is the constructor / the call of Initialize
ConstructStep == obj = "unconstructed" /\ obj' # obj
InitializeBeginStep == pc = "ready" /\ pc' = "cal_tsc"

\* C12: Initialize asks for real-time scheduling and page locking only with
\* root privilege (without it neither call leaves a message, only the
\* no-root warning is written); with it each call is made once and either
\* succeeds or warns; in every case the same step enters the calibration
\* loop, and the Initialize that returns has stored the overhead pair.  On
\* a processor without the invariant-rate bit the constructor writes one
\* warning and the object is constructed all the same.
C12_PrivilegeAndInvariantOnlyWarn ==
    [][ /\ ConstructStep =>
            /\ obj' = "constructed"
            /\ cerr' = IF IsInvariantTscEnabled(edx)
                       THEN {} ELSE {"no_invariant_tsc"}
        /\ InitializeBeginStep =>
            /\ obj' = "constructed"
            /\ i' = 0 /\ min_latency' = TimePointMax /\ cycles_number' >= 1
            /\ UNCHANGED calibVars
            /\ "no_root" \in cerr' => cerr' = {"no_root"} /\ cout' = {}
            /\ "no_root" \notin cerr' =>
                   /\ ("sched_failed" \in cerr') # ("sched_rt" \in cout')
                   /\ ("mlock_failed" \in cerr') # ("pages_locked" \in cout')
                   /\ cerr' \subseteq {"sched_failed", "mlock_failed"}
        /\ pc' = "init_done" =>
            /\ tsc_overhead_' = min_tsc_overhead' /\ tsc_overhead_' > 0
            /\ clock_overhead_' = Sub(min_latency', min_tsc_overhead')
      ]_vars

\* C12 witness: on a processor without the invariant-rate bit the object
\* was constructed, and its Initialize, both of whose privileged calls
\* failed, is in the calibration loop.
C12_Witness ==
    /\ obj = "constructed" /\ ~IsInvariantTscEnabled(edx)
    /\ pc = "cal_tsc" /\ cerr = {"sched_failed", "mlock_failed"} /\ cout = {}

\* the step that is one iteration of Run's measurement loop
MeasureIterStep == pc = "measure" /\ pc' = "measure" /\ iter' = "measure"
\* the sample that step took is invalid: migrated, not monotonic, or not
\* above the counter overhead
InvalidSampleTaken ==
    \/ CheckCpuMigration /\ cpu_number0' # cpu_number1'
    \/ end' <= start'
    \/ end' - start' <= tsc_overhead_

\* C14: the measurement loop has no cap and no error exit.  An iteration
\* whose sample is invalid changes neither the counter nor the sum, writes
\* no diagnostic, produces no Result and leaves Run in the loop with fewer
\* than N samples counted, however many samples were discarded before; Run
\* returns only from a state with N counted samples.  So a Run whose
\* samples are all invalid from some point on stays in the loop for ever;
\* in particular a Run filtering against the largest TimePoint never
\* returns.
C14_NoCapOnDiscards ==
    [][ /\ (MeasureIterStep /\ InvalidSampleTaken) =>
            /\ InMeasureLoop'
            /\ r' = r /\ summary_time' = summary_time
            /\ acc_count' = acc_count /\ acc_count' < settings'.cycles_number_
            /\ result' = NoResult /\ cerr' = {} /\ obj' = "constructed"
        /\ (pc # "run_done" /\ pc' = "run_done") =>
            /\ pc = "measure"
            /\ acc_count = settings.cycles_number_
            /\ tsc_overhead_ < TimePointMax
        /\ (pc \in {"warmup", "measure"} /\ pc' # pc) =>
            pc' \in {"measure", "run_done"}
      ]_vars

\* C14 witness: a Run filtering against the largest TimePoint, for which
\* every sample is invalid, has discarded a sample that was monotonic and
\* not migrated, and is still in the loop with nothing counted.
C14_Witness ==
    /\ MeasuredSample /\ InMeasureLoop
    /\ tsc_overhead_ = TimePointMax
    /\ end > start /\ cpu_number0 = cpu_number1
    /\ acc_count = 0

\* C15 as stated: for any Settings with N >= 1 and any overhead, every
\* Result Run returns has overhead >= 0 and time >= overhead.
C15_TimeAtLeastOverhead ==
    pc = "run_done" =>
        /\ result.overhead_ >= 0
        /\ result.time_ >= result.overhead_

\* C15 amended: every Result has an overhead that is a TimePoint (hence
\* >= 0), and time >= overhead whenever the sum of the N accepted durations
\* is below 2^w.
C15_TimeAtLeastOverheadWithoutWrap ==
    pc = "run_done" =>
        /\ result.overhead_ \in TimePoint
        /\ acc_sum < Modulus => result.time_ >= result.overhead_

\* C15 witness: a Run filtering against a positive overhead has returned;
\* the sum did not wrap and the time is at least the overhead.
C15_Witness ==
    /\ pc = "run_done" /\ result.overhead_ > 0
    /\ acc_sum < Modulus /\ result.time_ >= result.overhead_

\* the policy table of the specification, in its own words, for the plain
\* variants: <<start sequence, end sequence>>
PolicyTable ==
    [SerializeOnce   |-> << <<"serialize", "read">>, <<"serialize", "read">> >>,
     LoadFence       |-> << <<"serialize", "read">>,
                            <<"load-fence", "read", "serialize">> >>,
     StoreFence      |-> << <<"serialize", "read">>,
                            <<"serialize", "read", "full-fence">> >>,
     ReadAndIdentify |-> << <<"serialize", "read">>,
                            <<"read-and-identify", "serialize">> >>,
     SerializeTwice  |-> << <<"serialize", "read", "serialize">>,
                            <<"serialize", "read", "serialize">> >>]
\* the policy an enumerator of Barrier stands for
PolicyOf ==
    [kOneCpuId |-> "SerializeOnce", kLFence |-> "LoadFence",
     kMFence |-> "StoreFence", kRdtscp |-> "ReadAndIdentify",
     kTwoCpuId |-> "SerializeTwice"]
\* the instruction an operation of the table stands for; in the core-id
\* variants the read is the read-and-identify instruction
InstructionOf(op, withCpu) ==
    CASE op = "serialize"         -> "cpuid"
      [] op = "read"              -> IF withCpu THEN "rdtscp" ELSE "rdtsc"
      [] op = "read-and-identify" -> "rdtscp"
      [] op = "load-fence"        -> "lfence"
      [] op = "full-fence"        -> "mfence"
TableSeq(ops, withCpu) == [k \in 1 .. Len(ops) |-> InstructionOf(ops[k], withCpu)]
\* position of the first cycle read of a sample
FirstRead(seq) ==
    CHOOSE k \in 1 .. Len(seq) :
        /\ seq[k] \in {"rdtsc", "rdtscp"}
        /\ \A j \in 1 .. (k - 1) : seq[j] \notin {"rdtsc", "rdtscp"}

\* C16: whatever loop or call takes a sample, the instructions it issues
\* are the start sequence of the object's policy in the table, the
\* operation, and the end sequence of the table, with the reads replaced
\* by read-and-identify exactly in the core-id variants (the loops of an
\* object with migration detection); and the start read comes right after
\* a serializing instruction.
C16_SequencesMatchPolicyTable ==
    iter # "none" =>
        LET withCpu == iter # "measure_time" /\ CheckCpuMigration
            row == PolicyTable[PolicyOf[BarrierType]]
        IN  /\ issued = TableSeq(row[1], withCpu) \o <<"code">>
                            \o TableSeq(row[2], withCpu)
            /\ FirstRead(issued) > 1
            /\ issued[FirstRead(issued) - 1] = "cpuid"
            /\ issued[FirstRead(issued)] = IF withCpu THEN "rdtscp" ELSE "rdtsc"

\* C16 witness: a measurement iteration of an object with the load-fence
\* policy and migration detection has issued the core-id variant of the
\* table's sequences.
C16_Witness ==
    /\ BarrierType = "kLFence" /\ CheckCpuMigration /\ iter = "measure"
    /\ issued = <<"cpuid", "rdtscp", "code", "lfence", "rdtscp", "cpuid">>

\* C17 as stated: MeasureStabilizedMinLatency keeps the minimum of the
\* valid samples and stops exactly when the number of consecutive valid
\* samples that failed to beat the minimum (zero again after a sample that
\* sets a new minimum) has reached stabilized_threshold or N valid samples
\* have been taken; the default threshold is 10% of the default N.
C17_StopsWhenStreakReachesThreshold ==
    /\ kDefaultStabilizedThreshold * 10 = kDefaultCyclesNumber
    /\ pc \in {"stab", "stab_done"} =>
        /\ min_latency = IF valid_count = 0 THEN TimePointMax ELSE least_valid
        /\ pc = "stab_done" =>
               \/ fail_streak >= stabilized_threshold
               \/ valid_count = cycles_number

\* the step with which Initialize returns
InitializeReturnStep == pc = "cal_clock" /\ pc' = "init_done"

\* C18: the two overheads are written by the return of Initialize and by
\* nothing else: every step of Run and MeasureTime, and the caller's
\* resumption between calls, leaves them as they were.  A Run starts from
\* a zero counter and a zero sum whatever ran before it, and the Result it
\* returns carries the stored counter overhead, against which its samples
\* were filtered.
C18_RunLeavesCalibrationAlone ==
    [][ /\ ~InitializeReturnStep => UNCHANGED calibVars
        /\ InitializeReturnStep =>
               /\ tsc_overhead_' = min_tsc_overhead
               /\ clock_overhead_' = Sub(min_latency, min_tsc_overhead)
        /\ RunBeginStep =>
               /\ r' = 0 /\ summary_time' = 0 /\ result' = NoResult
               /\ acc_count' = 0 /\ warm_execs' = 0
        /\ (MeasureIterStep /\ acc_count' # acc_count) =>
               end' - start' > tsc_overhead_
        /\ (pc = "measure" /\ pc' = "run_done") =>
               /\ result'.overhead_ = tsc_overhead_
               /\ acc_min > tsc_overhead_
      ]_vars

\* C18 witness: on an object whose Initialize stored two positive
\* overheads, a Run has returned after its warm-up and N counted samples;
\* the overheads are in place and the Result carries the counter overhead.
C18_Witness ==
    /\ pc = "run_done" /\ tsc_overhead_ > 0 /\ clock_overhead_ > 0
    /\ warm_execs > 0 /\ acc_count = settings.cycles_number_
    /\ result.overhead_ = tsc_overhead_

\* the second of two Runs has returned, and every sample it counted is
\* longer than every sample the first counted
SecondRunDidMoreWork ==
    /\ pc = "run_done" /\ first_run # NoRun
    /\ acc_min > first_run.greatest

\* C19 as stated: if every accepted duration of B is greater than every
\* accepted duration of A, then, for any N >= 1 of each Run and the same
\* floor, Result.time of B is greater than Result.time of A.
C19_MoreWorkGreaterTime ==
    SecondRunDidMoreWork => result.time_ > first_run.time_

\* C19 amended: when every duration B counted is longer than every
\* duration A counted, B's time is greater than A's whenever the sum of B's
\* durations is below 2^w, whether or not A's sum wrapped (a wrapped sum
\* only lowers A's time); when B's sum reaches 2^w, B's time is the
\* quotient of the sum modulo 2^w by B's N, which can be at or below A's.
C19_MoreWorkGreaterTimeUnlessSecondWraps ==
    SecondRunDidMoreWork =>
        /\ acc_sum < Modulus => result.time_ > first_run.time_
        /\ acc_sum >= Modulus =>
               result.time_ = (acc_sum % Modulus) \div settings.cycles_number_

\* C19 witness: A was measured with N = 2 and its sum wrapped, B's single
\* sample is longer than both of A's and its sum did not wrap; B's time is
\* the greater.
C19_Witness ==
    /\ SecondRunDidMoreWork /\ first_run.wrapped /\ acc_sum < Modulus
    /\ first_run.greatest > first_run.time_
    /\ result.time_ > first_run.time_

\* C20: as long as valid samples keep occurring, a Run in its warm-up or
\* measurement loop eventually returns (a floor of the largest TimePoint
\* admits no valid sample, so nothing is promised for it), and a
\* calibration in its first or second MeasureMinLatency eventually ends
\* (from the first loop the only way there is that loop's return, followed
\* by the second loop and its return).
C20_LoopsTerminateUnderFairness ==
    (\/ pc \in {"warmup", "measure"} /\ tsc_overhead_ < TimePointMax
     \/ pc \in {"cal_tsc", "cal_clock"})
        ~> (pc \in {"run_done", "init_done"})

\* C20 witness: with migration detection and a positive floor, a Run with
\* a warm-up cycle and N = 2 has returned with the last sample it took
\* counted.
C20_Witness ==
    /\ pc = "run_done" /\ CheckCpuMigration /\ tsc_overhead_ > 0
    /\ settings.cycles_number_ = 2 /\ r = 2
    /\ settings.cache_warmup_cycles_number_ = 1
    /\ iter = "measure" /\ cpu_number0 = cpu_number1
    /\ end - start > tsc_overhead_

\* C22: an object on which Initialize has not run holds the member
\* initializers, overhead 0 (an Initialize always stores a positive counter
\* overhead).  Run and MeasureTime on it are entered like on any other
\* object; the measurement loop counts exactly the samples with end > start
\* (and equal core ids under migration detection), and the Result carries
\* overhead 0.
C22_RunBeforeInitializeUsesFloorZero ==
    [][ (tsc_overhead_ = 0 /\ clock_overhead_ = 0) =>
            /\ RunBeginStep =>
                   /\ obj' = "constructed"
                   /\ cerr' \subseteq {"cpu_negative", "affinity_failed",
                                       "pin_failed"}
            /\ MeasureTimeStep =>
                   /\ obj' = "constructed" /\ cerr' = {}
                   /\ raw_time' = (end' - start' + Modulus) % Modulus
            /\ MeasureIterStep =>
                   (acc_count' = acc_count + 1 <=>
                        /\ end' > start'
                        /\ CheckCpuMigration => cpu_number0' = cpu_number1')
            /\ MeasureIterStep => acc_count' \in {acc_count, acc_count + 1}
            /\ (pc = "measure" /\ pc' = "run_done") =>
                   /\ result'.overhead_ = 0
                   /\ tsc_overhead_' = 0 /\ clock_overhead_' = 0
      ]_vars

\* C22 witness: a Run on an object that was never initialized has returned
\* with overhead 0, having counted a sample of duration 1, the shortest a
\* monotonic sample can have.
C22_Witness ==
    /\ pc = "run_done" /\ tsc_overhead_ = 0 /\ clock_overhead_ = 0
    /\ result.overhead_ = 0 /\ acc_min = 1
    /\ acc_count = settings.cycles_number_

\* C23: the sum is never checked for overflow: a Run returns whether or not
\* the exact sum of its accepted durations fits in a TimePoint.  While it
\* fits, Result.time lies between the least and the greatest accepted
\* duration; when it does not, Result.time is the quotient of the sum
\* modulo 2^w by N.
C23_TimeWithinSamplesOrWrapped ==
    pc = "run_done" =>
        /\ acc_sum < Modulus =>
               /\ acc_min <= result.time_
               /\ result.time_ <= acc_max
        /\ acc_sum >= Modulus =>
               result.time_ = (acc_sum % Modulus) \div settings.cycles_number_

\* C23 witness: a Run with N = 2 has returned although its two accepted
\* durations sum to 2^w or more; the reported time is below both of them.
C23_Witness ==
    /\ pc = "run_done" /\ settings.cycles_number_ = 2
    /\ acc_sum >= Modulus
    /\ result.time_ = (acc_sum % Modulus) \div 2
    /\ result.time_ < acc_min

\* the positions of the cycle reads and of the operation in a trace
ReadPositions(seq) == {k \in 1 .. Len(seq) : seq[k] \in {"rdtsc", "rdtscp"}}
CodePositions(seq) == {k \in 1 .. Len(seq) : seq[k] = "code"}

\* C21: every iteration of Run's loops is a start reading, one execution
\* of the operation and an end reading, in that order and complete before
\* the next begins.  So at any point of a Run the operation has been
\* executed once per warm-up iteration, once per counted sample and once
\* per discarded sample, and a Run that returns has executed it exactly
\* warmupCycles + cyclesNumber + D times, D the number of discards; without
\* discards that is warmupCycles + cyclesNumber.
C21_ExecutionsAreWarmupPlusCountedPlusDiscarded ==
    /\ (pc \in {"warmup", "measure", "run_done"} /\ iter # "none") =>
           /\ Cardinality(CodePositions(issued)) = 1
           /\ Cardinality(ReadPositions(issued)) = 2
           /\ \E a, b \in ReadPositions(issued), c \in CodePositions(issued) :
                  a < c /\ c < b
    /\ pc \in {"warmup", "measure", "run_done"} =>
           /\ op_execs = warm_execs + acc_count + discards
           /\ warm_execs <= settings.cache_warmup_cycles_number_
           /\ acc_count <= settings.cycles_number_
    /\ pc = "run_done" =>
           /\ op_execs = settings.cache_warmup_cycles_number_
                             + settings.cycles_number_ + discards
           /\ discards = 0 =>
                  op_execs = settings.cache_warmup_cycles_number_
                                 + settings.cycles_number_

\* C21 witness: a Run with one warm-up cycle and N = 2 has returned after
\* two discarded samples and five executions of the operation.
C21_Witness ==
    /\ pc = "run_done" /\ settings.cache_warmup_cycles_number_ = 1
    /\ settings.cycles_number_ = 2 /\ discards = 2 /\ op_execs = 5

=============================================================================
